---- MODULE Spec2Model ----
(***************************************************************************)
(* The conversation state machine of the RiskChat component.               *)
(*                                                                         *)
(* The repository holds three versions of RiskChat.tsx:                    *)
(*   "chat8000"  POST http://localhost:8000/chat   (isLoading guard)       *)
(*   "retrieve"  POST http://localhost:8080/retrieve (no guard)            *)
(*   "chat8080"  POST http://localhost:8080/chat   (isLoading guard)       *)
(* One of them is mounted; `variant` says which.                           *)
(*                                                                         *)
(* A JavaScript string is a sequence of tokens: the text of the input box  *)
(* is a sequence of one-character tokens, a literal of the source is one   *)
(* token, and a template literal is the concatenation of its parts.        *)
(* A JavaScript value is a record [t, v]: t is its type tag and v its      *)
(* payload (a token sequence for a string, the items for an array).        *)
(***************************************************************************)
EXTENDS Integers, Sequences, FiniteSets, TLC

\* ------------------------------------------------------------- bounds
\* Most HTTP requests issued in one run.
MaxRequests == 2

\* ------------------------------------------------------------- values
Undefined == [t |-> "undefined", v |-> <<>>]
Null == [t |-> "null", v |-> <<>>]
Str(s) == [t |-> "string", v |-> s]
Arr(a) == [t |-> "array", v |-> a]

\* JavaScript truthiness of the values above: '' null undefined are falsy,
\* every array (the empty one too) is truthy.
Truthy(x) == \/ x.t = "array"
             \/ x.t = "string" /\ x.v # <<>>

\* a || b
OrElse(a, b) == IF Truthy(a) THEN a ELSE b

\* a ?? b
Coalesce(a, b) == IF a.t \in {"undefined", "null"} THEN b ELSE a

\* White space, as String.prototype.trim sees it.
WhiteSpace == {" ", "\t", "\n"}

\* The texts a user leaves in the input box: empty, white space only, text
\* with white space around it, plain text.
Texts == {<<>>, <<" ", "\t">>, <<" ", "a", " ">>, <<"b">>}

\* String.prototype.trim: white space removed at both ends.
RECURSIVE TrimStart(_)
TrimStart(s) ==
  IF s # <<>> /\ Head(s) \in WhiteSpace THEN TrimStart(Tail(s)) ELSE s

RECURSIVE TrimEnd(_)
TrimEnd(s) ==
  IF s # <<>> /\ s[Len(s)] \in WhiteSpace
  THEN TrimEnd(SubSeq(s, 1, Len(s) - 1))
  ELSE s

Trim(s) == TrimEnd(TrimStart(s))

\* prev.slice(0, prev.length - 1)
SliceButLast(s) == IF Len(s) = 0 THEN <<>> ELSE SubSeq(s, 1, Len(s) - 1)

\* ------------------------------------------------------------- variants
Variants == {"chat8000", "retrieve", "chat8080"}
ChatVariants == {"chat8000", "chat8080"}

API_URL(var) == IF var = "chat8000" THEN "http://localhost:8000"
                ELSE "http://localhost:8080"

Endpoint(var) == IF var \in ChatVariants THEN "/chat" ELSE "/retrieve"

\* The k sent with every request.
K == 5

\* ------------------------------------------------------------- mount
\* The context items of src/app/page.tsx.
Item1 == "IBM: CONTESTED INDUSTRY"
Item2 == "IBM: US SBIR grant applicant"

\* The initialResponse prop: absent, or an object with optional query and
\* optional context.
Seed(query, context) == [t |-> "object", query |-> query, context |-> context]
NoSeed == [t |-> "undefined", query |-> Undefined, context |-> Undefined]

Seeds == {NoSeed,
          Seed(Str(<<"Q">>), Arr(<<Item1, Item2>>)),
          Seed(Undefined, Arr(<<Item1>>)),
          Seed(Str(<<"Q">>), Arr(<<>>))}

ChatMessage(role, content, context) ==
  [role |-> role, content |-> content, context |-> context]

\* HasSeedContext testing the context without its length.
HasSeedContextAnyLength(seed) ==
  seed.t = "object" /\ seed.context.t = "array"

\* initialResponse?.context?.length
HasSeedContext(seed) ==
  seed.t = "object" /\ seed.context.t = "array" /\ Len(seed.context.v) > 0

\* SeedProse without the fallback for a missing query.
SeedProseNoFallback(var, seed) ==
  Str((IF var = "retrieve"
       THEN <<"Here are the high priority risks for: \"">>
       ELSE <<"Here are the initial risk findings for: \"">>)
      \o seed.query.v \o <<"\"">>)

SeedProse(var, seed) ==
  IF Truthy(seed.query)
  THEN Str((IF var = "retrieve"
            THEN <<"Here are the high priority risks for: \"">>
            ELSE <<"Here are the initial risk findings for: \"">>)
           \o seed.query.v \o <<"\"">>)
  ELSE Str(<<"Loaded initial risk data.">>)

\* The useState initializer of messages.
InitialMessages(var, seed) ==
  IF HasSeedContext(seed)
  THEN <<ChatMessage("assistant", SeedProse(var, seed), seed.context)>>
  ELSE IF var = "retrieve"
       THEN <<ChatMessage("assistant",
                          Str(<<"Ask a query to retrieve risk findings.">>),
                          Undefined)>>
       ELSE <<>>

\* ------------------------------------------------------------- state
VARIABLES
  variant,          \* which RiskChat.tsx is mounted
  initialResponse,  \* the prop the page passes
  messages,         \* useState<ChatMessage[]>
  input,            \* useState('')
  isLoading,        \* useState(false); the retrieve variant has none
  sent,             \* the HTTP requests issued so far, in order
  pending,          \* the sendMessage calls suspended at await axios.post
  settled,          \* the requests that came back, each with how it ended
  last              \* the last event handled and what it did

vars == <<variant, initialResponse, messages, input, isLoading, sent, pending, settled, last>>

Event(op, arg) == [op |-> op, arg |-> arg]

Init ==
  /\ variant \in Variants
  /\ initialResponse \in Seeds
  /\ messages = InitialMessages(variant, initialResponse)
  /\ input = <<>>
  /\ isLoading = FALSE
  /\ sent = <<>>
  /\ pending = {}
  /\ settled = {}
  /\ last = Event("mount", Undefined)


\* ------------------------------------------------------------- requests
\* The history of the /chat request body: messages.map(...)
History(msgs) ==
  [i \in 1..Len(msgs) |->
     [role |-> IF msgs[i].role = "assistant" THEN "model" ELSE "user",
      text |-> msgs[i].content]]

\* ChatBody with the history read after the optimistic append.
ChatBodyAfterAppend(query, msgs) ==
  [query |-> Str(query),
   history |-> History(Append(msgs, ChatMessage("user", Str(query), Undefined))),
   k |-> K]

\* The requestBody of the /chat variants.
ChatBody(query, msgs) == [query |-> Str(query), history |-> History(msgs), k |-> K]

\* The body posted by the /retrieve variant.
RetrieveBody(query) == [query |-> Str(query), k |-> K]

Request(var, body) == [url |-> API_URL(var) \o Endpoint(var), body |-> body]

\* What axios.post settles with: a rejection carrying an error (network
\* failure, non-2xx status), or a 2xx response whose data is the parsed body.
Errors == {Str(<<"AxiosError: Network Error">>),
           Str(<<"AxiosError: Request failed with status code 500">>)}

Data(response, context) == [t |-> "object", response |-> response, context |-> context]
NullData == [t |-> "null", response |-> Undefined, context |-> Undefined]

Bodies == {NullData} \cup
          {Data(r, c) : r \in {Undefined, Str(<<"answer">>)},
                        c \in {Undefined, Null, Arr(<<Item1>>)}}

Rejected(e) == [kind |-> "reject", error |-> e, data |-> NullData]
Resolved(d) == [kind |-> "resolve", error |-> Undefined, data |-> d]

Outcomes == {Rejected(e) : e \in Errors} \cup {Resolved(d) : d \in Bodies}

\* Reading data.response of a null body throws.
TypeError == Str(<<"TypeError: Cannot read properties of null (reading 'response')">>)

\* ------------------------------------------------------------- input bar
\* disabled={isLoading} of the TextField and the IconButton; the /retrieve
\* variant never disables them.
Disabled == variant \in ChatVariants /\ isLoading

\* onChange={(e) => setInput(e.target.value)}
Change(v) ==
  /\ ~Disabled
  /\ input' = v
  /\ last' = Event("change", Str(v))
  /\ UNCHANGED <<variant, initialResponse, messages, isLoading, sent, pending, settled>>

\* ------------------------------------------------------------- sendMessage
\* Returns without the trim: only the empty input is turned away.
ReturnsNoTrim == input = <<>> \/ (variant \in ChatVariants /\ isLoading)

\* The early return of sendMessage.
Returns == Trim(input) = <<>> \/ (variant \in ChatVariants /\ isLoading)

\* SendChat without setIsLoading(true).
SendChatNoLoading ==
  LET newUserMessage == ChatMessage("user", Str(input), Undefined)
      currentInput == input
      requestBody == ChatBody(currentInput, messages)
  IN /\ messages' = Append(messages, newUserMessage)
     /\ input' = <<>>
     /\ isLoading' = isLoading
     /\ sent' = Append(sent, Request(variant, requestBody))
     /\ pending' = pending \cup {[id |-> Len(sent) + 1, user |-> newUserMessage]}

\* SendChat storing the trimmed input as the turn's content.
SendChatTrimmed ==
  LET newUserMessage == ChatMessage("user", Str(Trim(input)), Undefined)
      currentInput == input
      requestBody == ChatBody(currentInput, messages)
  IN /\ messages' = Append(messages, newUserMessage)
     /\ input' = <<>>
     /\ isLoading' = TRUE
     /\ sent' = Append(sent, Request(variant, requestBody))
     /\ pending' = pending \cup {[id |-> Len(sent) + 1, user |-> newUserMessage]}

\* sendMessage up to its await, in the /chat variants.
SendChat ==
  LET newUserMessage == ChatMessage("user", Str(input), Undefined)
      currentInput == input
      requestBody == ChatBody(currentInput, messages)
  IN /\ messages' = Append(messages, newUserMessage)
     /\ input' = <<>>
     /\ isLoading' = TRUE
     /\ sent' = Append(sent, Request(variant, requestBody))
     /\ pending' = pending \cup {[id |-> Len(sent) + 1, user |-> newUserMessage]}

\* SendRetrieve clearing the input at submission, as the /chat variants do.
SendRetrieveClearsInput ==
  LET userMessage == ChatMessage("user", Str(input), Undefined)
  IN /\ messages' = Append(messages, userMessage)
     /\ sent' = Append(sent, Request(variant, RetrieveBody(input)))
     /\ pending' = pending \cup {[id |-> Len(sent) + 1, user |-> userMessage]}
     /\ input' = <<>>
     /\ UNCHANGED isLoading

\* sendMessage up to its await, in the /retrieve variant.
SendRetrieve ==
  LET userMessage == ChatMessage("user", Str(input), Undefined)
  IN /\ messages' = Append(messages, userMessage)
     /\ sent' = Append(sent, Request(variant, RetrieveBody(input)))
     /\ pending' = pending \cup {[id |-> Len(sent) + 1, user |-> userMessage]}
     /\ UNCHANGED <<input, isLoading>>

SendMessage ==
  IF Returns
  THEN /\ last' = Event(IF Trim(input) = <<>> THEN "send:noop" ELSE "send:rejected",
                        Str(input))
       /\ UNCHANGED <<variant, initialResponse, messages, input, isLoading, sent, pending, settled>>
  ELSE /\ Len(sent) < MaxRequests
       /\ IF variant \in ChatVariants THEN SendChat ELSE SendRetrieve
       /\ last' = Event("send:accepted", Str(input))
       /\ UNCHANGED <<variant, initialResponse, settled>>

\* onKeyDown={(e) => e.key === 'Enter' && sendMessage()}
KeyDown(key) ==
  IF key = "Enter"
  THEN SendMessage
  ELSE /\ last' = Event("keydown", Str(<<key>>))
       /\ UNCHANGED <<variant, initialResponse, messages, input, isLoading, sent, pending, settled>>

\* onClick={sendMessage}
Click == SendMessage

\* ------------------------------------------------------------- resolution
\* The catch block of the /chat variants.
ChatErrorMessage(error) ==
  ChatMessage("assistant",
              Str(<<"Sorry, an error occurred while processing your query. (Error: ">>
                  \o Coalesce(error, Str(<<"Unknown">>)).v \o <<")">>),
              Undefined)

\* ChatCatch that only logs the error.
ChatCatchLogOnly(prev, error) == prev

\* ChatCatch that keeps the optimistic user turn and appends the error turn.
ChatCatchKeepUser(prev, error) == Append(prev, ChatErrorMessage(error))

\* ChatCatch that only rolls the optimistic user turn back.
ChatCatchRollbackOnly(prev, error) == SliceButLast(prev)

ChatCatch(prev, error) == Append(SliceButLast(prev), ChatErrorMessage(error))

\* ChatAssistantMessage without the `|| []` on the context.
ChatAssistantMessageRawContext(data) ==
  ChatMessage("assistant", data.response, data.context)

\* Steps 4 and 5 of the /chat variants.
ChatAssistantMessage(data) ==
  ChatMessage("assistant", data.response, OrElse(data.context, Arr(<<>>)))

\* ChatSuccess that does not put the user turn back.
ChatSuccessDropUser(prev, newUserMessage, data) ==
  Append(SliceButLast(prev), ChatAssistantMessage(data))

ChatSuccess(prev, newUserMessage, data) ==
  Append(Append(SliceButLast(prev), newUserMessage), ChatAssistantMessage(data))

\* RespondChat with setIsLoading(false) at the end of the try block instead
\* of in a finally block.
RespondChatNoFinally(p, outcome) ==
  /\ messages' = IF outcome.kind = "reject"
                 THEN ChatCatch(messages, outcome.error)
                 ELSE IF outcome.data.t = "null"
                      THEN ChatCatch(messages, TypeError)
                      ELSE ChatSuccess(messages, p.user, outcome.data)
  /\ isLoading' = IF outcome.kind = "reject" \/ outcome.data.t = "null"
                  THEN isLoading ELSE FALSE
  /\ UNCHANGED input

\* The /chat variants after the await: try, catch, finally.
RespondChat(p, outcome) ==
  /\ messages' = IF outcome.kind = "reject"
                 THEN ChatCatch(messages, outcome.error)
                 ELSE IF outcome.data.t = "null"
                      THEN ChatCatch(messages, TypeError)
                      ELSE ChatSuccess(messages, p.user, outcome.data)
  /\ isLoading' = FALSE
  /\ UNCHANGED input

\* The /retrieve variant: resp?.response || 'Here are the results:'
RetrieveAssistantMessage(resp) ==
  ChatMessage("assistant",
              OrElse(resp.response, Str(<<"Here are the results:">>)),
              OrElse(resp.context, Arr(<<>>)))

RetrieveErrorMessage ==
  ChatMessage("assistant", Str(<<"Error: Could not connect to backend.">>), Undefined)

\* The /retrieve variant after the await: try, catch, setInput('').
RespondRetrieve(p, outcome) ==
  /\ messages' = IF outcome.kind = "reject"
                 THEN Append(messages, RetrieveErrorMessage)
                 ELSE Append(messages, RetrieveAssistantMessage(outcome.data))
  /\ input' = <<>>
  /\ UNCHANGED isLoading

\* Does the call end in its catch block?
Fails(var, outcome) ==
  \/ outcome.kind = "reject"
  \/ var \in ChatVariants /\ outcome.data.t = "null"

\* How request id ended: ok is FALSE when the call ended in its catch block.
Settled(id, ok) == [id |-> id, ok |-> ok]

\* Respond posting the request again when it failed.
RespondRetry(p, outcome) ==
  /\ p \in pending
  /\ IF Fails(variant, outcome)
     THEN /\ sent' = Append(sent, sent[p.id])
          /\ UNCHANGED <<messages, input, isLoading, pending, settled>>
     ELSE /\ IF variant \in ChatVariants
             THEN RespondChat(p, outcome) ELSE RespondRetrieve(p, outcome)
          /\ pending' = pending \ {p}
          /\ settled' = settled \cup {Settled(p.id, TRUE)}
          /\ sent' = sent
  /\ last' = Event(IF Fails(variant, outcome) THEN "respond:failure" ELSE "respond:success",
                   [id |-> p.id, outcome |-> outcome])
  /\ UNCHANGED <<variant, initialResponse>>

\* The backend answers request p.id, or the request fails.
Respond(p, outcome) ==
  /\ p \in pending
  /\ IF variant \in ChatVariants THEN RespondChat(p, outcome) ELSE RespondRetrieve(p, outcome)
  /\ pending' = pending \ {p}
  /\ settled' = settled \cup {Settled(p.id, ~Fails(variant, outcome))}
  /\ last' = Event(IF Fails(variant, outcome) THEN "respond:failure" ELSE "respond:success",
                   [id |-> p.id, outcome |-> outcome])
  /\ UNCHANGED <<variant, initialResponse, sent>>

Keys == {"Enter", "a"}

Next ==
  \/ \E v \in Texts : Change(v)
  \/ \E key \in Keys : KeyDown(key)
  \/ Click
  \/ \E p \in pending, outcome \in Outcomes : Respond(p, outcome)

Spec == Init /\ [][Next]_vars

\* ------------------------------------------------------------- claims
IsChat == variant \in ChatVariants

Last(s) == s[Len(s)]

SendOps == {"send:noop", "send:rejected", "send:accepted"}
RespondOps == {"respond:success", "respond:failure"}

\* The user turn a submission of text appends.
UserTurn(text) == ChatMessage("user", text, Undefined)

\* C1: in the /chat variants at most one request is outstanding in every
\* reachable state, and a sendMessage call made while a request is
\* outstanding issues no HTTP request and leaves messages unchanged.
C1_AtMostOneOutstanding ==
  /\ [](IsChat => Cardinality(pending) <= 1)
  /\ [][(IsChat /\ pending # {} /\ last'.op \in SendOps)
          => (messages' = messages /\ sent' = sent /\ pending' = pending)]_vars

C1_Witness ==
  IsChat /\ Cardinality(pending) = 1 /\ isLoading /\ last.op \in SendOps
  /\ last.op # "send:accepted"

\* C2: in the /retrieve variant at most one request is outstanding in every
\* reachable state.
C2_RetrieveAtMostOneOutstanding ==
  variant = "retrieve" => Cardinality(pending) <= 1

\* C3: once a request completes, the user turn of its submission is present
\* and immediately followed by the assistant turn that request produced (the
\* turn the completion appended).
C3_UserThenAssistant ==
  last.op \in RespondOps =>
    /\ Len(messages) >= 2
    /\ messages[Len(messages) - 1] = UserTurn(sent[last.arg.id].body.query)
    /\ Last(messages).role = "assistant"

\* The fixed error string of the documentation ("Error Handling").
FixedErrorText == Str(<<"Error: Could not connect to backend.">>)

\* The number of turns of a role in a sequence.
RECURSIVE Count(_, _)
Count(role, msgs) ==
  IF msgs = <<>> THEN 0
  ELSE (IF Head(msgs).role = role THEN 1 ELSE 0) + Count(role, Tail(msgs))

\* The items of a turn's context, as the rendering reads them: a turn
\* without a context field shows none.
ContextItems(m) == IF m.context.t = "array" THEN m.context.v ELSE <<>>

\* C4: a failed request adds exactly one assistant turn, whose content is
\* the fixed error string, whatever the error, and whose context is the
\* empty sequence.
C4_FixedErrorTurn ==
  [][(last'.op = "respond:failure")
       => /\ Count("assistant", messages') = Count("assistant", messages) + 1
          /\ Last(messages').role = "assistant"
          /\ Last(messages').content = FixedErrorText
          /\ ContextItems(Last(messages')) = <<>>]_vars

\* The context the backend supplied, or the empty sequence when it supplied
\* none (absent or null).
SuppliedContext(data) ==
  IF data.context.t = "array" THEN data.context ELSE Arr(<<>>)

ErrorTurns(var) ==
  IF var \in ChatVariants
  THEN {ChatErrorMessage(e) : e \in Errors \cup {TypeError}}
  ELSE {RetrieveErrorMessage}

\* C6: a 200 response whose body lacks `response` is handled as a failure:
\* the turn appended is the error assistant turn.
C6_MalformedBodyIsFailure ==
  (/\ last.op \in RespondOps
   /\ last.arg.outcome.kind = "resolve"
   /\ last.arg.outcome.data.response = Undefined)
    => Last(messages) \in ErrorTurns(variant)

\* C7: in the /chat variants an accepted submission of text c issues one
\* request with query = c and a history that maps the turns the sequence had
\* before the submission, one entry per turn in the same order, assistant to
\* model and user to user, the entry's text being the turn's content.
C7_HistoryOfPriorTurns ==
  [][(IsChat /\ last'.op = "send:accepted")
       => LET body == Last(sent').body
          IN /\ sent' = Append(sent, Last(sent'))
             /\ body.query = Str(input)
             /\ Len(body.history) = Len(messages)
             /\ \A i \in 1..Len(messages) :
                  /\ body.history[i].text = messages[i].content
                  /\ body.history[i].role =
                       (IF messages[i].role = "assistant" THEN "model" ELSE "user")]_vars

C7_Witness ==
  /\ IsChat /\ last.op = "send:accepted"
  /\ LET h == Last(sent).body.history
     IN /\ Len(h) >= 2
        /\ \E i, j \in 1..Len(h) : h[i].role = "user" /\ h[j].role = "model"

\* C8: when no request is outstanding, sendMessage with input that is not
\* empty after trimming is accepted and appends one user turn whose content
\* is the submitted text; the earlier turns are unchanged.
C8_AppendUser ==
  [][(pending = {} /\ Trim(input) # <<>> /\ last'.op \in SendOps)
       => /\ last'.op = "send:accepted"
          /\ messages' = Append(messages, UserTurn(Str(input)))]_vars

C8_Witness ==
  /\ last.op = "send:accepted" /\ Cardinality(pending) = 1
  /\ Last(messages) = UserTurn(Str(<<" ", "a", " ">>))
  /\ Len(messages) >= 3

\* C9: sendMessage with empty or white-space-only input changes nothing in
\* any state: messages, the loading flag and the input are unchanged and no
\* HTTP request is issued.
C9_BlankIsNoOp ==
  [][(Trim(input) = <<>> /\ last'.op \in SendOps)
       => UNCHANGED <<messages, isLoading, input, sent, pending>>]_vars

C9_Witness ==
  /\ last.op = "send:noop" /\ input = <<" ", "\t">> /\ pending # {}

\* C10: after a failed request resolves no request is outstanding, the
\* loading flag is false and the input bar is enabled.
C10_UsableAfterFailure ==
  last.op = "respond:failure" => (pending = {} /\ ~isLoading /\ ~Disabled)

\* Is s a prefix of t?
IsPrefix(s, t) == Len(s) <= Len(t) /\ SubSeq(t, 1, Len(s)) = s

\* A step that appends one user turn: an accepted submission.
AppendsUserTurn ==
  /\ Len(messages') = Len(messages) + 1
  /\ IsPrefix(messages, messages')
  /\ Last(messages').role = "user"

\* C11: the requests issued are as many as the accepted submissions: a step
\* that appends a user turn issues exactly one request, and every other step
\* (a no-op or rejected submission, a response, a failure) issues none.
C11_OneRequestPerSubmission ==
  [][IF AppendsUserTurn
     THEN Len(sent') = Len(sent) + 1 /\ IsPrefix(sent, sent')
          /\ Last(sent').body.query = Last(messages').content
     ELSE sent' = sent]_vars

C11_Witness ==
  /\ last.op = "respond:failure"
  /\ Len(sent) = 1 /\ pending = {} /\ settled = {Settled(1, FALSE)}

\* C12 as claimed: in every variant a seed with query Q and a non-empty
\* context gives one assistant turn reading
\* 'Here are the initial risk findings for: "Q"' with the seed's context.
C12_SeedTurnSameProse ==
  (last.op = "mount" /\ HasSeedContext(initialResponse)
   /\ initialResponse.query = Str(<<"Q">>))
    => messages = <<ChatMessage("assistant",
                                Str(<<"Here are the initial risk findings for: \"", "Q", "\"">>),
                                initialResponse.context)>>

\* C12 amended: the prose is 'Here are the initial risk findings for: "Q"' in
\* the /chat variants and 'Here are the high priority risks for: "Q"' in the
\* /retrieve variant; without a query it is 'Loaded initial risk data.'; the
\* turn is the only one and carries the seed's context.
C12_SeedTurn ==
  (last.op = "mount" /\ initialResponse.t = "object"
   /\ initialResponse.context.t = "array" /\ initialResponse.context.v # <<>>)
    => /\ Len(messages) = 1
       /\ messages[1].role = "assistant"
       /\ messages[1].context = initialResponse.context
       /\ messages[1].content =
            (IF initialResponse.query = Str(<<"Q">>)
             THEN IF IsChat
                  THEN Str(<<"Here are the initial risk findings for: \"", "Q", "\"">>)
                  ELSE Str(<<"Here are the high priority risks for: \"", "Q", "\"">>)
             ELSE Str(<<"Loaded initial risk data.">>))

C12_Witness ==
  /\ last.op = "mount" /\ variant = "retrieve"
  /\ initialResponse = Seed(Str(<<"Q">>), Arr(<<Item1, Item2>>))
  /\ messages[1].context = Arr(<<Item1, Item2>>)

C14_FailureKeepsUserTurn ==
  (IsChat /\ last.op = "respond:failure") =>
    LET req == sent[last.arg.id]
        n == Len(req.body.history)
    IN /\ Len(messages) = n + 2
       /\ History(SubSeq(messages, 1, n)) = req.body.history
       /\ messages[n + 1] = UserTurn(req.body.query)
       /\ messages[n + 2] \in ErrorTurns(variant)

\* C15: turns are never removed, changed or reordered: the sequence before a
\* step is a prefix of the sequence after it, except that the failure of a
\* /chat request takes away the last turn, the user turn in flight, and
\* keeps every turn before it.
C15_PrefixPreserved ==
  [][IF IsChat /\ last'.op = "respond:failure"
     THEN /\ messages # <<>> /\ Last(messages).role = "user"
          /\ IsPrefix(SliceButLast(messages), messages')
     ELSE IsPrefix(messages, messages')]_vars

C15_Witness ==
  /\ IsChat /\ last.op = "respond:success"
  /\ Cardinality(settled) = 2 /\ Len(messages) >= 4

\* C16: in the /chat variants nothing but the resolution of the outstanding
\* request ends the pending state: while it is outstanding the loading flag
\* is true, and every step that is not its resolution leaves the flag true,
\* the request outstanding and the sequence as it is.
C16_PendingUntilResolved ==
  [][(IsChat /\ pending # {} /\ last'.op \notin RespondOps)
       => /\ isLoading /\ isLoading'
          /\ pending' = pending
          /\ messages' = messages]_vars

C16_Witness ==
  IsChat /\ isLoading /\ pending # {} /\ last.op = "keydown"

\* C17: in the /chat variants the loading flag is true exactly when a
\* request is outstanding.
C17_LoadingMirrorsRequest ==
  IsChat => (isLoading <=> pending # {})

C17_Witness ==
  IsChat /\ last.op = "respond:failure" /\ ~isLoading /\ pending = {}

\* C18: in the /chat variants the last turn is a user turn exactly when a
\* request is outstanding, and it is then the optimistic user turn of that
\* request.
C18_LastUserIffOutstanding ==
  IsChat =>
    /\ (messages # <<>> /\ Last(messages).role = "user") <=> pending # {}
    /\ \A p \in pending :
         Last(messages) = p.user /\ p.user = UserTurn(sent[p.id].body.query)

C18_Witness ==
  /\ IsChat /\ pending # {} /\ Len(messages) >= 3
  /\ Last(messages).role = "user" /\ messages[1].role = "assistant"

\* The requests that ended well, and those that ended in the catch block.
Successes == Cardinality({x \in settled : x.ok})
Failures == Cardinality({x \in settled : ~x.ok})

\* C19: in the /chat variants, whenever no request is outstanding, the user
\* turns are as many as the successes, the assistant turns as many as the
\* seed turns plus the requests resolved, and the length is the initial
\* length plus twice the successes plus the failures.
C19_Counts ==
  (IsChat /\ pending = {}) =>
    LET seedTurns == IF HasSeedContext(initialResponse) THEN 1 ELSE 0
    IN /\ Count("user", messages) = Successes
       /\ Count("assistant", messages) = seedTurns + Successes + Failures
       /\ Len(messages) = seedTurns + 2 * Successes + Failures

C19_Witness ==
  IsChat /\ pending = {} /\ Successes = 1 /\ Failures = 1

\* The texts of the error assistant turns of a variant.
ErrorTexts(var) == {m.content : m \in ErrorTurns(var)}

\* C20: in the /chat variants the history of a request has, for every
\* earlier request that failed, the error turn as a model entry in the place
\* that request's turns took, and user entries only for the earlier requests
\* that succeeded; with a seed turn, the first entry is the seed prose as a
\* model entry.
C20_HistoryAfterFailure ==
  IsChat =>
    \A j \in 1..Len(sent) :
      LET h == sent[j].body.history
          users == {k \in 1..Len(h) : h[k].role = "user"}
      IN /\ \A x \in settled :
              (x.id < j /\ ~x.ok) =>
                LET at == Len(sent[x.id].body.history) + 1
                IN /\ at <= Len(h)
                   /\ h[at].role = "model"
                   /\ h[at].text \in ErrorTexts(variant)
         /\ Cardinality(users) = Cardinality({x \in settled : x.id < j /\ x.ok})
         /\ HasSeedContext(initialResponse) =>
              /\ Len(h) >= 1
              /\ h[1].role = "model"
              /\ h[1].text = messages[1].content

C20_Witness ==
  /\ IsChat /\ HasSeedContext(initialResponse)
  /\ Len(sent) = 2 /\ Settled(1, FALSE) \in settled
  /\ Len(sent[2].body.history) = 2
  /\ sent[2].body.history[2].role = "model"

\* C21: in the /retrieve variant an accepted submission leaves the input as
\* it is; a submit repeated right after it is accepted again, appends a
\* second identical user turn and posts the same request again; and every
\* resolution, success or failure, empties the input whatever it holds.
C21_RetrieveInputClearedOnResolve ==
  [][variant = "retrieve" =>
       /\ last'.op = "send:accepted" => (input' = input /\ Trim(input') # <<>>)
       /\ (last.op = "send:accepted" /\ last'.op \in SendOps) =>
            /\ last'.op = "send:accepted"
            /\ messages' = Append(messages, Last(messages))
            /\ sent' = Append(sent, Last(sent))
       /\ last'.op \in RespondOps => input' = <<>>]_vars

C21_Witness ==
  /\ variant = "retrieve" /\ last.op = "send:accepted"
  /\ Len(sent) = 2 /\ sent[1] = sent[2] /\ Cardinality(pending) = 2
  /\ messages[Len(messages)] = messages[Len(messages) - 1]
  /\ Str(input) = sent[2].body.query

====
